---- MODULE Spec2Model ----
(***************************************************************************)
(* A model of the MLI analysis backend (src/backend): the grid placement,  *)
(* the intercept counter, the segmentation, the line metrics aggregation   *)
(* of run_mli_analysis, and the /analyze request handler on top of the     *)
(* state manager.                                                          *)
(*                                                                         *)
(* Floating point values are modelled as exact rationals [num, den] in     *)
(* lowest terms; Python's None is the record NoneValue.  Images are small  *)
(* matrices of gray levels, indexed [row][column] from 0 as in numpy.      *)
(***************************************************************************)
EXTENDS Integers, Sequences, FiniteSets, TLC

VARIABLES
    \* _auto_positions(length, count) -> positions
    length, count, positions, apReturned,
    \* _count_intercepts(samples) -> (intercepts.count, intercepts.indices)
    samples, intercepts, ciReturned,
    \* run_mli_analysis(path, config): the file at path, the position in the
    \* function, its locals and what the call produced
    file, config, pc, mask, horizontal_positions, vertical_positions,
    horizontal_data, vertical_data, original_overlay, threshold_overlay,
    lines, average_mli, processed_image_base64, result,
    \* successive calls of run_mli_analysis: an earlier call kept for
    \* comparison, and the number of calls made
    remembered, calls,
    \* the server: StateManager._state, the files under uploads/, the tick of
    \* the request being handled, the /analyze handler's frame, the response
    state, disk, now, handler, response,
    \* per animal, the result last given to record_analysis since the last
    \* clear_results (kept for comparison with what the storage holds)
    recorded,
    \* AnalysisConfigModel(**raw_config): the fields given and what the
    \* validation made of them
    raw_config, validation

apVars == <<length, count, positions, apReturned>>
ciVars == <<samples, intercepts, ciReturned>>
inputVars == <<file, config>>
localVars == <<mask, horizontal_positions, vertical_positions, horizontal_data, vertical_data,
               original_overlay, threshold_overlay, lines, average_mli, processed_image_base64>>
runVars == <<inputVars, pc, localVars, result>>
repeatVars == <<remembered, calls>>
serverVars == <<state, disk, now, handler, response, recorded>>
configVars == <<raw_config, validation>>
vars == <<apVars, ciVars, runVars, repeatVars, serverVars, configVars>>

(***************************************************************************)
(* Bounds of the model.                                                    *)
(***************************************************************************)
MaxLength == 9        \* largest axis length given to _auto_positions
MaxCount == 10        \* largest line count given to _auto_positions
MaxSamples == 5       \* longest sample sequence given to _count_intercepts
MaxSampleValue == 2   \* largest sample value (the mask holds 0 and 1)
MaxLines == 3         \* n_lines_horizontal and n_lines_vertical are 1..MaxLines
MaxMinArea == 3       \* min_area of the segmentation on its own is 0..MaxMinArea
MaxCalls == 3         \* successive calls of run_mli_analysis
MaxRequests == 4      \* requests handled by the server
MaxPadding == 2       \* whitespace characters before and after a magnification

GrayLevels == {0, 1, 2}
\* <<height, width>> of the images analysed by run_mli_analysis
Shapes == {<<3, 2>>, <<2, 3>>}
\* <<height, width>> of the images of the segmentation on its own
SegmentShapes == {<<2, 4>>, <<3, 2>>}
\* min_area of the configs of run_mli_analysis
MinAreas == {0, 2}
\* <<line_length_um_horizontal, line_length_um_vertical>>
LineLengths == {<<100, 50>>}
\* <<height, width>> of the images of the successive calls
RepeatShapes == {<<2, 2>>}
\* n_lines_horizontal = n_lines_vertical of the configs of the successive calls
RepeatCounts == {1, 2}
\* the animals of the requests
Animals == {"a1", "a2"}

(***************************************************************************)
(* Helpers: numpy-style 0-indexed lists are TLA+ sequences; SeqAt(s, i) is *)
(* s[i] of the source.                                                     *)
(***************************************************************************)
SeqAt(s, i) == s[i + 1]

Range(s) == {s[i] : i \in 1..Len(s)}

RECURSIVE SetToSortedSeq(_)
SetToSortedSeq(S) ==
    IF S = {} THEN <<>>
    ELSE LET m == CHOOSE x \in S : \A y \in S : x <= y
         IN <<m>> \o SetToSortedSeq(S \ {m})

(***************************************************************************)
(* round(n / d) of Python 3 for d > 0: to nearest, ties to the even        *)
(* integer.                                                                *)
(***************************************************************************)
RoundHalfEven(n, d) ==
    LET q == n \div d
        r == n % d
    IN IF 2 * r < d THEN q
       ELSE IF 2 * r > d THEN q + 1
       ELSE IF q % 2 = 0 THEN q ELSE q + 1

(***************************************************************************)
(* _auto_positions: step = length / (count + 1), position index is         *)
(* int(round(step * (index + 1))); the empty list for count <= 0.          *)
(***************************************************************************)
AutoPositionsStepByCount(len, cnt) ==
    IF cnt <= 0 THEN <<>>
    ELSE [k \in 1..cnt |-> RoundHalfEven(len * k, cnt)]

AutoPositions(len, cnt) ==
    IF cnt <= 0 THEN <<>>
    ELSE [k \in 1..cnt |-> RoundHalfEven(len * k, cnt + 1)]

(***************************************************************************)
(* _count_intercepts: active = samples > 0; the indices are the places i   *)
(* (0-indexed, i > 0) where active[i] differs from active[i-1], found by   *)
(* np.diff and np.where in increasing order; count is their number.        *)
(***************************************************************************)
Active(s) == [i \in 1..Len(s) |-> IF s[i] > 0 THEN 1 ELSE 0]

Diff(a) == [i \in 1..(Len(a) - 1) |-> a[i + 1] - a[i]]

WhereNonZero(t) == SetToSortedSeq({i - 1 : i \in {j \in 1..Len(t) : t[j] # 0}})

WhereRising(t) == SetToSortedSeq({i - 1 : i \in {j \in 1..Len(t) : t[j] > 0}})

CountInterceptsRisingOnly(s) ==
    IF Len(s) = 0 THEN [count |-> 0, indices |-> <<>>]
    ELSE LET where == WhereRising(Diff(Active(s)))
             indices == [i \in 1..Len(where) |-> where[i] + 1]
         IN [count |-> Len(indices), indices |-> indices]

CountIntercepts(s) ==
    IF Len(s) = 0 THEN [count |-> 0, indices |-> <<>>]
    ELSE LET where == WhereNonZero(Diff(Active(s)))
             indices == [i \in 1..Len(where) |-> where[i] + 1]
         IN [count |-> Len(indices), indices |-> indices]

(***************************************************************************)
(* Each specification below exercises one part of the program; the         *)
(* variables of the other parts then rest at these values.                 *)
(***************************************************************************)
ApIdle == length = 0 /\ count = 0 /\ positions = <<>> /\ apReturned = FALSE
CiIdle == samples = <<>> /\ intercepts = [count |-> 0, indices |-> <<>>] /\ ciReturned = FALSE

(***************************************************************************)
(* Rationals for the float arithmetic of the aggregation.                  *)
(***************************************************************************)
RECURSIVE Gcd(_, _)
Gcd(a, b) == IF b = 0 THEN a ELSE Gcd(b, a % b)

Rat(n, d) == LET g == Gcd(n, d) IN [num |-> n \div g, den |-> d \div g]

NoneValue == [num |-> 0, den |-> 0]

IsNone(x) == x.den = 0

RatAdd(a, b) == Rat(a.num * b.den + b.num * a.den, a.den * b.den)

RECURSIVE RatSum(_)
RatSum(s) == IF Len(s) = 0 THEN Rat(0, 1) ELSE RatAdd(Head(s), RatSum(Tail(s)))

\* np.mean of a non-empty list of floats
Mean(s) == LET t == RatSum(s) IN Rat(t.num, t.den * Len(s))

(***************************************************************************)
(* Images.  A decoded image is [height, width, pixels] with pixels a       *)
(* function from <<row, column>> to a gray level; the three channels of a  *)
(* pixel are taken equal, so that cv2.cvtColor(BGR2GRAY) yields that       *)
(* level.  cv2.imread returns None for a file it cannot read: Unreadable.  *)
(***************************************************************************)
Pos(h, w) == (0..(h - 1)) \X (0..(w - 1))

Unreadable == [readable |-> FALSE, height |-> 0, width |-> 0, pixels |-> <<>>]

ImagesOfShape(h, w, levels) ==
    {[readable |-> TRUE, height |-> h, width |-> w, pixels |-> px] :
        px \in [Pos(h, w) -> levels]}

(***************************************************************************)
(* skimage.filters.threshold_otsu on an integer image: the value itself    *)
(* for a single-valued image; else, over the bins min..max, the first      *)
(* index maximising weight1 * weight2 * (mean1 - mean2)^2, where class 1   *)
(* is the pixels <= bin and class 2 the pixels above it.  With             *)
(* mean = sum / weight the variance of bin i is                            *)
(* (s1 * w2 - s2 * w1)^2 / (w1 * w2), compared here by cross               *)
(* multiplication.                                                         *)
(***************************************************************************)
PixelsWhere(px, lo, hi) == {p \in DOMAIN px : lo <= px[p] /\ px[p] <= hi}

RECURSIVE SumLevels(_, _, _)
SumLevels(px, lo, hi) ==
    IF lo > hi THEN 0
    ELSE hi * Cardinality(PixelsWhere(px, hi, hi)) + SumLevels(px, lo, hi - 1)

MinLevel(px) == CHOOSE v \in {px[p] : p \in DOMAIN px} : \A p \in DOMAIN px : v <= px[p]
MaxLevel(px) == CHOOSE v \in {px[p] : p \in DOMAIN px} : \A p \in DOMAIN px : v >= px[p]

\* the between-class variance of every bin but the last, as
\* [bin, num, den, weight1]: variance12 of the source is num / den
OtsuVariances(px) ==
    LET lo == MinLevel(px)
        hi == MaxLevel(px)
        n == Cardinality(DOMAIN px)
        total == SumLevels(px, lo, hi)
    IN {LET w1 == Cardinality(PixelsWhere(px, lo, i))
            s1 == SumLevels(px, lo, i)
            d == s1 * (n - w1) - (total - s1) * w1
        IN [bin |-> i, num |-> d * d, den |-> w1 * (n - w1), weight1 |-> w1] :
            i \in lo..(hi - 1)}

VarGeq(a, b) == a.num * b.den >= b.num * a.den

\* the bins where variance12 is maximal
OtsuBest(px) ==
    LET vs == OtsuVariances(px)
    IN {v \in vs : \A u \in vs : VarGeq(v, u)}

ThresholdOtsu(px) ==
    IF MinLevel(px) = MaxLevel(px) THEN MinLevel(px)
    ELSE LET best == OtsuBest(px)
         IN (CHOOSE v \in best : \A u \in best : v.bin <= u.bin).bin

(***************************************************************************)
(* The float computation of skimage decides a tie between two different    *)
(* splits by its rounding; the model's images are those where the maximum  *)
(* is attained by one split only (bins that split the pixels the same way  *)
(* give identical floats, and argmax takes the first).                     *)
(***************************************************************************)
OtsuDecided(px) ==
    LET best == OtsuBest(px)
    IN \A u, v \in best : u.weight1 = v.weight1

(***************************************************************************)
(* skimage.morphology.remove_small_objects(mask, min_size): label the      *)
(* connected components (connectivity 1: the 4 neighbours) and drop the    *)
(* components with fewer than min_size pixels.  A mask is the function     *)
(* from pixel position to 0 or 1; Tissue(m) is the set of its 1 pixels.    *)
(***************************************************************************)
Tissue(m) == {p \in DOMAIN m : m[p] = 1}

Neighbours4(p) ==
    {<<p[1] - 1, p[2]>>, <<p[1] + 1, p[2]>>, <<p[1], p[2] - 1>>, <<p[1], p[2] + 1>>}

RECURSIVE Grow(_, _)
Grow(comp, T) ==
    LET more == {q \in T \ comp : \E p \in comp : q \in Neighbours4(p)}
    IN IF more = {} THEN comp ELSE Grow(comp \cup more, T)

Component(T, p) == Grow({p}, T)

RemoveLargeObjects(m, min_size) ==
    LET T == Tissue(m)
    IN [p \in DOMAIN m |->
           IF p \in T /\ Cardinality(Component(T, p)) < min_size THEN 1 ELSE 0]

RemoveSmallObjects(m, min_size) ==
    LET T == Tissue(m)
    IN [p \in DOMAIN m |->
           IF p \in T /\ Cardinality(Component(T, p)) >= min_size THEN 1 ELSE 0]

(***************************************************************************)
(* _load_image_and_mask after a successful read, with sigma_denoise = 0    *)
(* (no blur): tissue is gray < threshold, then small objects are removed   *)
(* if min_area > 0; the mask is returned as uint8 0 / 1.                   *)
(***************************************************************************)
ThresholdMask(px) ==
    LET threshold == ThresholdOtsu(px)
    IN [p \in DOMAIN px |-> IF px[p] < threshold THEN 1 ELSE 0]

LoadMask(px, min_area) ==
    IF min_area > 0 THEN RemoveSmallObjects(ThresholdMask(px), min_area)
    ELSE ThresholdMask(px)

(***************************************************************************)
(* The overlays.  cv2.line and _draw_intercept_marker draw in place on an  *)
(* overlay; an overlay is its base image and the list of what was drawn on *)
(* it, in order.  _encode_image_to_base64 is lossless: its text stands for *)
(* the overlay it encodes.                                                 *)
(***************************************************************************)
NoOverlay == [base |-> <<>>, drawn |-> <<>>]

LineEvent(axis, at) == [kind |-> "line", axis |-> axis, point |-> <<at, at>>]

MarkerEvent(axis, point) == [kind |-> "marker", axis |-> axis, point |-> point]

\* (the markers of a line drawn before the line, for comparison)
DrawMarkersFirst(overlay, axis, at, points) ==
    [overlay EXCEPT !.drawn =
        @ \o [i \in 1..Len(points) |-> MarkerEvent(axis, points[i])] \o <<LineEvent(axis, at)>>]
Draw(overlay, axis, at, points) ==
    [overlay EXCEPT !.drawn =
        @ \o <<LineEvent(axis, at)>> \o [i \in 1..Len(points) |-> MarkerEvent(axis, points[i])]]

(***************************************************************************)
(* What the drawing calls leave on the canvas.  A pixel is <<ink, gray>>:  *)
(* <<"base", g>> where nothing was drawn, else the ink of the last call    *)
(* that covered it.  cv2.line of thickness 3 covers the pixels within 1 of *)
(* the line; _draw_intercept_marker draws a ring of radius 8 and thickness *)
(* 3, then a tilted cross of size 30 and thickness 3, then a filled disc   *)
(* of radius 4.  Squared distances are compared; p is <<row, column>> and  *)
(* a marker's point is <<x, y>>.                                           *)
(***************************************************************************)
Abs(n) == IF n < 0 THEN -n ELSE n

LineFootprint(axis, at, p) ==
    IF axis = "horizontal" THEN Abs(p[1] - at) <= 1 ELSE Abs(p[2] - at) <= 1

MarkerInk(point, p, under) ==
    LET dx == Abs(p[2] - point[1])
        dy == Abs(p[1] - point[2])
        d2 == dx * dx + dy * dy
    IN IF d2 <= 16 THEN <<"disc", 0>>
       ELSE IF Abs(dx - dy) <= 2 /\ dx <= 15 /\ dy <= 15 THEN <<"cross", 0>>
       ELSE IF 4 * d2 >= 169 /\ 4 * d2 <= 361 THEN <<"ring", 0>>
       ELSE under

PaintEvent(px, e) ==
    [p \in DOMAIN px |->
        IF e.kind = "line"
        THEN (IF LineFootprint(e.axis, e.point[1], p) THEN <<e.axis, 0>> ELSE px[p])
        ELSE MarkerInk(e.point, p, px[p])]

RECURSIVE PaintEvents(_, _)
PaintEvents(px, events) ==
    IF events = <<>> THEN px ELSE PaintEvents(PaintEvent(px, Head(events)), Tail(events))

Render(overlay) ==
    PaintEvents([p \in DOMAIN overlay.base |-> <<"base", overlay.base[p]>>], overlay.drawn)

EncodeImageToBase64(overlay) == [png |-> overlay]

NotEncoded == [png |-> NoOverlay]

(***************************************************************************)
(* One measurement line: the samples of mask[rr, cc] along the full row y  *)
(* (resp. column x), their intercepts and the marker points (x, y).        *)
(***************************************************************************)
RowSamples(m, width, y) == [c \in 1..width |-> m[<<y, c - 1>>]]

\* (the column read from the mask overlay as drawn so far, for comparison)
ColumnSamplesOfOverlay(m, height, x) ==
    [r \in 1..height |->
        IF Render(threshold_overlay)[<<r - 1, x>>][1] = "base" THEN m[<<r - 1, x>>] ELSE 1]
ColumnSamples(m, height, x) == [r \in 1..height |-> m[<<r - 1, x>>]]

HorizontalPoints(indices, y) == [i \in 1..Len(indices) |-> <<indices[i], y>>]

VerticalPoints(indices, x) == [i \in 1..Len(indices) |-> <<x, indices[i]>>]

LineData(n, length_um) == [intercepts |-> n, length_um |-> length_um]

(***************************************************************************)
(* The aggregation of run_mli_analysis (lines 146-174).                    *)
(***************************************************************************)
Max(a, b) == IF a >= b THEN a ELSE b
Min(a, b) == IF a <= b THEN a ELSE b

LineCountMin(hd, vd) == Min(Len(hd), Len(vd))

LineCount(hd, vd) == Max(Len(hd), Len(vd))

LineMliZeroForNone(total_line_length_um, total_intercepts) ==
    IF total_intercepts # 0 THEN Rat(total_line_length_um, total_intercepts) ELSE Rat(0, 1)

LineMli(total_line_length_um, total_intercepts) ==
    IF total_intercepts # 0 THEN Rat(total_line_length_um, total_intercepts) ELSE NoneValue

LineMetrics(hd, vd, idx) ==
    LET hasH == idx < Len(hd)
        hasV == idx < Len(vd)
        horizontal_intercepts == IF hasH THEN SeqAt(hd, idx).intercepts ELSE 0
        vertical_intercepts == IF hasV THEN SeqAt(vd, idx).intercepts ELSE 0
        horizontal_length_um == IF hasH THEN SeqAt(hd, idx).length_um ELSE 0
        vertical_length_um == IF hasV THEN SeqAt(vd, idx).length_um ELSE 0
        total_line_length_um == horizontal_length_um + vertical_length_um
        total_intercepts == horizontal_intercepts + vertical_intercepts
    IN [line_number |-> idx + 1,
        horizontal_intercepts |-> horizontal_intercepts,
        vertical_intercepts |-> vertical_intercepts,
        horizontal_length_um |-> horizontal_length_um,
        vertical_length_um |-> vertical_length_um,
        total_line_length_um |-> total_line_length_um,
        mean_linear_intercept_um |-> LineMli(total_line_length_um, total_intercepts)]

BuildLines(hd, vd) == [k \in 1..LineCount(hd, vd) |-> LineMetrics(hd, vd, k - 1)]

ValidMli(ls) ==
    LET Defined(l) == ~IsNone(l.mean_linear_intercept_um)
        kept == SelectSeq(ls, Defined)
    IN [i \in 1..Len(kept) |-> kept[i].mean_linear_intercept_um]

AverageMliNoneAsZero(ls) ==
    LET all == [i \in 1..Len(ls) |->
                   IF IsNone(ls[i].mean_linear_intercept_um) THEN Rat(0, 1)
                   ELSE ls[i].mean_linear_intercept_um]
    IN IF Len(all) > 0 THEN Mean(all) ELSE NoneValue

AverageMli(ls) ==
    LET valid_mli == ValidMli(ls)
    IN IF Len(valid_mli) > 0 THEN Mean(valid_mli) ELSE NoneValue

(***************************************************************************)
(* run_mli_analysis, step by step.  pc is the position in the function:    *)
(* "load" (line 106), "measure" (the two loops, lines 116-144, and the     *)
(* aggregation after them), "encode_processed" (line 176),                 *)
(* "encode_threshold" (line 177), then "returned" or "raised".             *)
(***************************************************************************)
NoMetrics ==
    [lines |-> <<>>, average_mli_um |-> NoneValue,
     processed_image_base64 |-> NotEncoded, threshold_image_base64 |-> NotEncoded]

NoResult == [status |-> "none", error |-> "", metrics |-> NoMetrics]

RaisedWithPartialMetrics(error) ==
    [status |-> "raised", error |-> error,
     metrics |-> [lines |-> lines, average_mli_um |-> average_mli,
                  processed_image_base64 |-> processed_image_base64,
                  threshold_image_base64 |-> NotEncoded]]

Raised(error) == [status |-> "raised", error |-> error, metrics |-> NoMetrics]

Returned(metrics) == [status |-> "returned", error |-> "", metrics |-> metrics]

\* the fresh lists of lines 116, 131 and 146
InitialHorizontalData == <<>>
InitialVerticalData == <<>>
\* (the list of an earlier call kept, for comparison)
StaleLines == lines
InitialLines == <<>>

Raise(error) ==
    /\ pc' = "raised"
    /\ result' = Raised(error)
    /\ UNCHANGED localVars

\* lines 106-116 on the file f at path and the config c: _load_image_and_mask,
\* the positions, the two overlays and the first of the fresh lists (the
\* second, of line 131, is set here too: nothing reads it before)
LoadFrom(f, c) ==
    IF ~f.readable
    THEN Raise("ImageProcessingError")
    ELSE LET m == LoadMask(f.pixels, c.min_area)
         IN /\ mask' = m
            /\ horizontal_positions' = AutoPositions(f.height, c.n_lines_horizontal)
            /\ vertical_positions' = AutoPositions(f.width, c.n_lines_vertical)
            /\ original_overlay' = [base |-> f.pixels, drawn |-> <<>>]
            /\ threshold_overlay' = [base |-> [p \in DOMAIN m |-> m[p] * 255], drawn |-> <<>>]
            /\ horizontal_data' = InitialHorizontalData
            /\ vertical_data' = InitialVerticalData
            /\ UNCHANGED <<lines, average_mli, processed_image_base64>>
            /\ pc' = "measure"
            /\ result' = NoResult

Load ==
    /\ pc = "load"
    /\ LoadFrom(file, config)
    /\ UNCHANGED inputVars

\* lines 117-129: one iteration of the loop over horizontal_positions;
\* mask[rr, cc] raises IndexError for a row outside the mask
HorizontalLine ==
    /\ pc = "measure"
    /\ Len(horizontal_data) < Len(horizontal_positions)
    /\ LET y == horizontal_positions[Len(horizontal_data) + 1]
       IN IF y > file.height - 1
          THEN Raise("IndexError")
          ELSE LET ci == CountIntercepts(RowSamples(mask, file.width, y))
                   points == HorizontalPoints(ci.indices, y)
               IN /\ original_overlay' = Draw(original_overlay, "horizontal", y, points)
                  /\ threshold_overlay' = Draw(threshold_overlay, "horizontal", y, points)
                  /\ horizontal_data' = Append(horizontal_data,
                                               LineData(ci.count, config.line_length_um_horizontal))
                  /\ UNCHANGED <<pc, mask, horizontal_positions, vertical_positions,
                                 vertical_data, lines, average_mli, processed_image_base64, result>>
    /\ UNCHANGED inputVars

\* lines 132-144: one iteration of the loop over vertical_positions
VerticalLine ==
    /\ pc = "measure"
    /\ Len(horizontal_data) = Len(horizontal_positions)
    /\ Len(vertical_data) < Len(vertical_positions)
    /\ LET x == vertical_positions[Len(vertical_data) + 1]
       IN IF x > file.width - 1
          THEN Raise("IndexError")
          ELSE LET ci == CountIntercepts(ColumnSamples(mask, file.height, x))
                   points == VerticalPoints(ci.indices, x)
               IN /\ original_overlay' = Draw(original_overlay, "vertical", x, points)
                  /\ threshold_overlay' = Draw(threshold_overlay, "vertical", x, points)
                  /\ vertical_data' = Append(vertical_data,
                                             LineData(ci.count, config.line_length_um_vertical))
                  /\ UNCHANGED <<pc, mask, horizontal_positions, vertical_positions,
                                 horizontal_data, lines, average_mli, processed_image_base64, result>>
    /\ UNCHANGED inputVars

\* lines 146-174: the rows and the average
Aggregate ==
    /\ pc = "measure"
    /\ Len(horizontal_data) = Len(horizontal_positions)
    /\ Len(vertical_data) = Len(vertical_positions)
    /\ lines' = InitialLines \o BuildLines(horizontal_data, vertical_data)
    /\ average_mli' = AverageMli(lines')
    /\ pc' = "encode_processed"
    /\ UNCHANGED <<inputVars, mask, horizontal_positions, vertical_positions, horizontal_data,
                   vertical_data, original_overlay, threshold_overlay, processed_image_base64,
                   result>>

\* line 176: cv2.imencode reports success or failure
EncodeProcessed ==
    /\ pc = "encode_processed"
    /\ \E success \in BOOLEAN :
          IF ~success
          THEN Raise("ImageProcessingError")
          ELSE /\ processed_image_base64' = EncodeImageToBase64(original_overlay)
               /\ pc' = "encode_threshold"
               /\ UNCHANGED <<mask, horizontal_positions, vertical_positions,
                              horizontal_data, vertical_data, original_overlay,
                              threshold_overlay, lines, average_mli, result>>
    /\ UNCHANGED inputVars

\* lines 177-184: the second encoding and the return
EncodeThresholdAndReturn ==
    /\ pc = "encode_threshold"
    /\ \E success \in BOOLEAN :
          IF ~success
          THEN Raise("ImageProcessingError")
          ELSE /\ result' = Returned([lines |-> lines,
                                      average_mli_um |-> average_mli,
                                      processed_image_base64 |-> processed_image_base64,
                                      threshold_image_base64 |->
                                          EncodeImageToBase64(threshold_overlay)])
               /\ pc' = "returned"
               /\ UNCHANGED localVars
    /\ UNCHANGED inputVars

(***************************************************************************)
(* A string, as far as str.strip and len see it: lead whitespace           *)
(* characters, then body characters from the first to the last one that is *)
(* not whitespace, then trail whitespace characters.  A string of          *)
(* whitespace only has body = 0.                                           *)
(***************************************************************************)
Text(lead, body, trail) == [lead |-> lead, body |-> body, trail |-> trail]

TextLen(s) == s.lead + s.body + s.trail

\* str.strip
Strip(s) == Text(0, s.body, 0)

(***************************************************************************)
(* The inputs of a run: a file that cannot be read or an image, and a      *)
(* config as AnalysisConfigModel validates it, with sigma_denoise = 0.     *)
(***************************************************************************)
Images(shapes) ==
    {img \in UNION {ImagesOfShape(sh[1], sh[2], GrayLevels) : sh \in shapes} :
        OtsuDecided(img.pixels)}

Configs(counts, areas) ==
    {[scale_um_per_pixel |-> 1,
      line_length_um_horizontal |-> ll[1],
      line_length_um_vertical |-> ll[2],
      n_lines_horizontal |-> nh,
      n_lines_vertical |-> nv,
      sigma_denoise |-> 0,
      min_area |-> a,
      magnification |-> Text(0, 3, 0)] :
        ll \in LineLengths, nh \in counts, nv \in counts, a \in areas}

NoConfig == CHOOSE c \in Configs({1}, {0}) : TRUE

(***************************************************************************)
(* models.py AnalysisConfigModel: the Field constraints are checked on the *)
(* value given, then the validator strip_whitespace replaces the           *)
(* magnification by its stripped form.                                     *)
(***************************************************************************)
MagnificationMinLength == 1
MagnificationMaxLength == 20

FieldsAccepted(raw) ==
    /\ raw.scale_um_per_pixel > 0
    /\ raw.line_length_um_horizontal > 0
    /\ raw.line_length_um_vertical > 0
    /\ raw.n_lines_horizontal >= 1
    /\ raw.n_lines_vertical >= 1
    /\ raw.sigma_denoise >= 0
    /\ raw.min_area >= 0
    /\ TextLen(raw.magnification) >= MagnificationMinLength
    /\ TextLen(raw.magnification) <= MagnificationMaxLength

NotValidated == [status |-> "none", config |-> NoConfig]

\* a ValidationError: FastAPI answers 422 and the handler is not entered
Rejected == [status |-> "rejected", config |-> NoConfig]

AnalysisConfigModel(raw) ==
    IF FieldsAccepted(raw)
    THEN [status |-> "accepted", config |-> [raw EXCEPT !.magnification = Strip(@)]]
    ELSE Rejected

ConfigIdle == raw_config = NoConfig /\ validation = NotValidated

LocalsEmpty ==
    /\ mask = <<>>
    /\ horizontal_positions = <<>>
    /\ vertical_positions = <<>>
    /\ horizontal_data = <<>>
    /\ vertical_data = <<>>
    /\ original_overlay = NoOverlay
    /\ threshold_overlay = NoOverlay
    /\ lines = <<>>
    /\ average_mli = NoneValue
    /\ processed_image_base64 = NotEncoded

RunIdle ==
    /\ file = Unreadable
    /\ config = NoConfig
    /\ pc = "idle"
    /\ LocalsEmpty
    /\ result = NoResult

\* no call kept yet
NoCall ==
    [set |-> FALSE, file |-> Unreadable, config |-> NoConfig, result |-> NoResult,
     between |-> FALSE]

RepeatIdle == remembered = NoCall /\ calls = 0

\* storage.py _load without a state.json; the dicts keep insertion order
EmptyState == [animals |-> <<>>, images |-> <<>>, results |-> <<>>]

NoDisk == <<>>

NoAnalysis == [animal_id |-> "", generated_at |-> 0, images |-> <<>>]

NothingRecorded == [a \in Animals |-> NoAnalysis]

NoHandler ==
    [endpoint |-> "none", stage |-> "idle", animal_id |-> "", config |-> NoConfig,
     images |-> <<>>, index |-> 0, image_results |-> <<>>, invoked |-> <<>>]

NoResponse ==
    [endpoint |-> "none", status |-> 0, detail |-> "", uploads |-> <<>>,
     result |-> NoAnalysis, image_id |-> <<0, 0>>, animal_id |-> ""]

ServerIdle ==
    /\ state = EmptyState
    /\ disk = NoDisk
    /\ now = 0
    /\ handler = NoHandler
    /\ response = NoResponse
    /\ recorded = NothingRecorded

InitRun ==
    /\ file \in {Unreadable} \cup Images(Shapes)
    /\ config \in Configs(1..MaxLines, MinAreas)
    /\ pc = "load"
    /\ LocalsEmpty
    /\ result = NoResult
    /\ ApIdle
    /\ CiIdle
    /\ RepeatIdle
    /\ ServerIdle
    /\ ConfigIdle

NextRun ==
    \/ Load /\ UNCHANGED <<apVars, ciVars, repeatVars, serverVars, configVars>>
    \/ HorizontalLine /\ UNCHANGED <<apVars, ciVars, repeatVars, serverVars, configVars>>
    \/ VerticalLine /\ UNCHANGED <<apVars, ciVars, repeatVars, serverVars, configVars>>
    \/ Aggregate /\ UNCHANGED <<apVars, ciVars, repeatVars, serverVars, configVars>>
    \/ EncodeProcessed /\ UNCHANGED <<apVars, ciVars, repeatVars, serverVars, configVars>>
    \/ EncodeThresholdAndReturn /\ UNCHANGED <<apVars, ciVars, repeatVars, serverVars, configVars>>

SpecRun == InitRun /\ [][NextRun]_vars

(***************************************************************************)
(* Specification of the segmentation on its own: the first step of         *)
(* run_mli_analysis on every image of SegmentShapes and every min_area.    *)
(***************************************************************************)
InitSegment ==
    /\ file \in {Unreadable} \cup Images(SegmentShapes)
    /\ config \in Configs({1}, 0..MaxMinArea)
    /\ pc = "load"
    /\ LocalsEmpty
    /\ result = NoResult
    /\ ApIdle
    /\ CiIdle
    /\ RepeatIdle
    /\ ServerIdle
    /\ ConfigIdle

NextSegment == Load /\ UNCHANGED <<apVars, ciVars, repeatVars, serverVars, configVars>>

SpecSegment == InitSegment /\ [][NextSegment]_vars

(***************************************************************************)
(* Specification of _auto_positions on its own: one call on inputs drawn   *)
(* from the bounded sets.                                                  *)
(***************************************************************************)
InitPositions ==
    /\ length \in 1..MaxLength
    /\ count \in (-1)..MaxCount
    /\ positions = <<>>
    /\ apReturned = FALSE
    /\ CiIdle
    /\ RunIdle
    /\ RepeatIdle
    /\ ServerIdle
    /\ ConfigIdle

AutoPositionsCall ==
    /\ apReturned = FALSE
    /\ positions' = AutoPositions(length, count)
    /\ apReturned' = TRUE
    /\ UNCHANGED <<length, count, ciVars, runVars, repeatVars, serverVars, configVars>>

NextPositions == AutoPositionsCall

SpecPositions == InitPositions /\ [][NextPositions]_vars

(***************************************************************************)
(* Specification of _count_intercepts on its own.                          *)
(***************************************************************************)
SampleSeqs == UNION {[1..n -> 0..MaxSampleValue] : n \in 0..MaxSamples}

InitIntercepts ==
    /\ samples \in SampleSeqs
    /\ intercepts = [count |-> 0, indices |-> <<>>]
    /\ ciReturned = FALSE
    /\ ApIdle
    /\ RunIdle
    /\ RepeatIdle
    /\ ServerIdle
    /\ ConfigIdle

CountInterceptsCall ==
    /\ ciReturned = FALSE
    /\ intercepts' = CountIntercepts(samples)
    /\ ciReturned' = TRUE
    /\ UNCHANGED <<samples, apVars, runVars, repeatVars, serverVars, configVars>>

NextIntercepts == CountInterceptsCall

SpecIntercepts == InitIntercepts /\ [][NextIntercepts]_vars

(***************************************************************************)
(* Specification of the validation on its own: one construction of an      *)
(* AnalysisConfigModel from fields drawn from sets that hold, for every     *)
(* constraint, a value on each side of it.                                 *)
(***************************************************************************)
Magnifications ==
    {Text(l, b, t) :
        l \in 0..MaxPadding, t \in 0..MaxPadding,
        b \in {0, 1, 3, MagnificationMaxLength - 1, MagnificationMaxLength,
               MagnificationMaxLength + 1}} \
    {Text(l, 0, t) : l \in 0..MaxPadding, t \in 1..MaxPadding}

RawConfigs ==
    {[scale_um_per_pixel |-> s,
      line_length_um_horizontal |-> lh,
      line_length_um_vertical |-> lv,
      n_lines_horizontal |-> nh,
      n_lines_vertical |-> nv,
      sigma_denoise |-> sd,
      min_area |-> a,
      magnification |-> mg] :
        s \in {0, 1}, lh \in {0, 100}, lv \in {-50, 50}, nh \in {0, 1}, nv \in {0, 2},
        sd \in {-1, 0}, a \in {-1, 0}, mg \in Magnifications}

InitConfig ==
    /\ raw_config \in RawConfigs
    /\ validation = NotValidated
    /\ ApIdle
    /\ CiIdle
    /\ RunIdle
    /\ RepeatIdle
    /\ ServerIdle

Validate ==
    /\ validation = NotValidated
    /\ validation' = AnalysisConfigModel(raw_config)
    /\ UNCHANGED <<raw_config, apVars, ciVars, runVars, repeatVars, serverVars>>

NextConfig == Validate

SpecConfig == InitConfig /\ [][NextConfig]_vars

(***************************************************************************)
(* Specification of successive calls of run_mli_analysis in one process:   *)
(* when a call has ended, the next one starts on inputs of its own.  One   *)
(* ended call is kept, with its inputs and its outcome, to compare later   *)
(* calls on the same inputs with; between records that a call on other     *)
(* inputs was made since.                                                  *)
(***************************************************************************)
\* a file that cannot be read, and the images with a light top row
RepeatFiles ==
    {Unreadable} \cup
    {img \in Images(RepeatShapes) : img.pixels[<<0, 0>>] = 2 /\ img.pixels[<<0, 1>>] = 2}

RepeatConfigs ==
    {c \in Configs(RepeatCounts, {0}) : c.n_lines_horizontal = c.n_lines_vertical}

InitRepeat ==
    /\ file \in RepeatFiles
    /\ config \in RepeatConfigs
    /\ pc = "load"
    /\ LocalsEmpty
    /\ result = NoResult
    /\ remembered = NoCall
    /\ calls = 1
    /\ ApIdle
    /\ CiIdle
    /\ ServerIdle
    /\ ConfigIdle

\* the next call: what the frame of the call before held is what the
\* function's assignments find
Invoke ==
    /\ pc \in {"returned", "raised"}
    /\ calls < MaxCalls
    /\ \E f \in RepeatFiles, c \in RepeatConfigs :
          /\ file' = f
          /\ config' = c
          /\ LoadFrom(f, c)
          /\ IF remembered.set
             THEN remembered' =
                      [remembered EXCEPT !.between =
                          @ \/ f # remembered.file \/ c # remembered.config]
             ELSE \E keep \in BOOLEAN :
                      remembered' =
                          IF keep
                          THEN [set |-> TRUE, file |-> file, config |-> config,
                                result |-> result,
                                between |-> f # file \/ c # config]
                          ELSE remembered
    /\ calls' = calls + 1

NextRepeat ==
    \/ Invoke /\ UNCHANGED <<apVars, ciVars, serverVars, configVars>>
    \/ Load /\ UNCHANGED <<apVars, ciVars, repeatVars, serverVars, configVars>>
    \/ HorizontalLine /\ UNCHANGED <<apVars, ciVars, repeatVars, serverVars, configVars>>
    \/ VerticalLine /\ UNCHANGED <<apVars, ciVars, repeatVars, serverVars, configVars>>
    \/ Aggregate /\ UNCHANGED <<apVars, ciVars, repeatVars, serverVars, configVars>>
    \/ EncodeProcessed /\ UNCHANGED <<apVars, ciVars, repeatVars, serverVars, configVars>>
    \/ EncodeThresholdAndReturn /\ UNCHANGED <<apVars, ciVars, repeatVars, serverVars, configVars>>

SpecRepeat == InitRepeat /\ [][NextRepeat]_vars

(***************************************************************************)
(* The server: POST /upload and POST /analyze over the state manager.  The *)
(* handlers are coroutines that never await, so a request is handled to    *)
(* its response before the next one starts; /analyze is followed through   *)
(* its loop because each iteration calls run_mli_analysis.  now is the     *)
(* tick of the request, read where the source reads the clock; an image id *)
(* and a file identifier are those of no earlier upload.                   *)
(***************************************************************************)
\* a 2 x 3 section: light background, a darker and a dark pixel in column 1
SectionImage ==
    [readable |-> TRUE, height |-> 2, width |-> 3,
     pixels |-> [p \in Pos(2, 3) |->
                    IF p = <<0, 1>> THEN 1 ELSE IF p = <<1, 1>> THEN 0 ELSE 2]]

\* the files a client uploads: one that cv2.imread cannot read, one section
UploadChoices ==
    {[filename |-> "notes.txt", content |-> Unreadable],
     [filename |-> "section.png", content |-> SectionImage]}

UploadLists == {<<u>> : u \in UploadChoices}

ServerConfigs == Configs({1}, {0})

Size(content) == content.height * content.width

EnsureAnimal(st, animal_id, t) ==
    IF \E i \in 1..Len(st.animals) : st.animals[i].animal_id = animal_id
    THEN st
    ELSE [st EXCEPT !.animals = Append(@, [animal_id |-> animal_id, created_at |-> t])]

AddImage(st, image_id, animal_id, filename, stored_path, size, t) ==
    [st EXCEPT !.images =
        Append(@, [image_id |-> image_id, animal_id |-> animal_id,
                   original_filename |-> filename, stored_path |-> stored_path,
                   size |-> size, uploaded_at |-> t])]

\* list.sort(key=uploaded_at) is stable: a record goes after those not later
InsertByUploadedAt(sorted, r) ==
    LET k == Cardinality({i \in 1..Len(sorted) : sorted[i].uploaded_at <= r.uploaded_at})
    IN SubSeq(sorted, 1, k) \o <<r>> \o SubSeq(sorted, k + 1, Len(sorted))

RECURSIVE SortByUploadedAt(_)
SortByUploadedAt(s) ==
    IF s = <<>>
    THEN <<>>
    ELSE InsertByUploadedAt(SortByUploadedAt(SubSeq(s, 1, Len(s) - 1)), s[Len(s)])

GetImagesForAnimal(st, animal_id) ==
    SortByUploadedAt(SelectSeq(st.images, LAMBDA r : r.animal_id = animal_id))

\* (a result appended whatever the dict holds, for comparison)
RecordAnalysisAppended(st, analysis_result) ==
    [st EXCEPT !.results = Append(@, analysis_result)]
RecordAnalysis(st, analysis_result) ==
    IF \E i \in 1..Len(st.results) : st.results[i].animal_id = analysis_result.animal_id
    THEN [st EXCEPT !.results =
             [i \in 1..Len(@) |->
                 IF @[i].animal_id = analysis_result.animal_id THEN analysis_result ELSE @[i]]]
    ELSE [st EXCEPT !.results = Append(@, analysis_result)]

(***************************************************************************)
(* storage.py: the other methods of StateManager.  dict.pop and the        *)
(* assignment to an existing key keep the order of the other entries.      *)
(***************************************************************************)
HasImage(st, image_id) == \E i \in 1..Len(st.images) : st.images[i].image_id = image_id

RemoveImage(st, image_id) ==
    [st EXCEPT !.images = SelectSeq(@, LAMBDA r : r.image_id # image_id)]

\* uploaded_at is kept: add_image has set it
MoveImage(st, image_id, to_animal_id) ==
    [st EXCEPT !.images =
        [i \in 1..Len(@) |->
            IF @[i].image_id = image_id THEN [@[i] EXCEPT !.animal_id = to_animal_id] ELSE @[i]]]

ClearResults(st) == [st EXCEPT !.results = <<>>]

\* _coerce_line on a line as record_analysis stored it: every key is there,
\* so no default applies, and float and int keep the values
CoerceLine(data) ==
    [line_number |-> data.line_number,
     horizontal_intercepts |-> data.horizontal_intercepts,
     vertical_intercepts |-> data.vertical_intercepts,
     horizontal_length_um |-> data.horizontal_length_um,
     vertical_length_um |-> data.vertical_length_um,
     total_line_length_um |-> data.total_line_length_um,
     mean_linear_intercept_um |-> data.mean_linear_intercept_um]

\* an empty threshold image is replaced by the processed one
CoerceImage(image) ==
    [image_id |-> image.image_id,
     image_number |-> image.image_number,
     name |-> image.name,
     average_mli_um |-> image.average_mli_um,
     processed_image_base64 |-> image.processed_image_base64,
     threshold_image_base64 |->
         IF image.threshold_image_base64 = NotEncoded
         THEN image.processed_image_base64
         ELSE image.threshold_image_base64,
     lines |-> [k \in 1..Len(image.lines) |-> CoerceLine(image.lines[k])]]

CoerceResult(record) ==
    [animal_id |-> record.animal_id,
     generated_at |-> record.generated_at,
     images |-> [k \in 1..Len(record.images) |-> CoerceImage(record.images[k])]]

GetResults(st) == [i \in 1..Len(st.results) |-> CoerceResult(st.results[i])]

\* None is NoAnalysis
GetResultForAnimal(st, animal_id) ==
    IF \E i \in 1..Len(st.results) : st.results[i].animal_id = animal_id
    THEN CoerceResult(st.results[CHOOSE i \in 1..Len(st.results) :
                                     st.results[i].animal_id = animal_id])
    ELSE NoAnalysis

\* the loop of upload_images from the i-th file on
RECURSIVE StoreUploads(_, _, _, _, _, _)
StoreUploads(st, dk, animal_id, images, i, t) ==
    IF i > Len(images)
    THEN [state |-> st, disk |-> dk, uploads |-> <<>>]
    ELSE LET upload == images[i]
             destination == [animal_id |-> animal_id,
                             file_identifier |-> <<t, i, upload.filename>>]
             image_id == <<t, i>>
             size == Size(upload.content)
             rest == StoreUploads(
                         AddImage(st, image_id, animal_id, upload.filename, destination, size, t),
                         (destination :> upload.content) @@ dk,
                         animal_id, images, i + 1, t)
         IN [rest EXCEPT !.uploads =
                <<[image_id |-> image_id, filename |-> upload.filename, size |-> size,
                   stored_path |-> destination, animal_id |-> animal_id]>> \o @]

Respond(endpoint, code, detail) ==
    [endpoint |-> endpoint, status |-> code, detail |-> detail, uploads |-> <<>>,
     result |-> NoAnalysis, image_id |-> <<0, 0>>, animal_id |-> ""]

NoRequestInProgress == handler.stage \in {"idle", "responded"}

\* the frame of run_mli_analysis is gone once the handler has its outcome
RunReset ==
    /\ file' = Unreadable
    /\ config' = NoConfig
    /\ pc' = "idle"
    /\ mask' = <<>>
    /\ horizontal_positions' = <<>>
    /\ vertical_positions' = <<>>
    /\ horizontal_data' = <<>>
    /\ vertical_data' = <<>>
    /\ original_overlay' = NoOverlay
    /\ threshold_overlay' = NoOverlay
    /\ lines' = <<>>
    /\ average_mli' = NoneValue
    /\ processed_image_base64' = NotEncoded
    /\ result' = NoResult

\* the image ids a client may name: those stored and one that is not
NoImageId == <<0, 0>>

ImageIdChoices(st) == {st.images[i].image_id : i \in 1..Len(st.images)} \cup {NoImageId}

ImageRecordOf(st, image_id) ==
    st.images[CHOOSE i \in 1..Len(st.images) : st.images[i].image_id = image_id]

Unlink(dk, path) == [p \in (DOMAIN dk) \ {path} |-> dk[p]]

\* the configs a client sends: a valid one and one with no horizontal line
ServerRawConfigs ==
    ServerConfigs \cup {[c EXCEPT !.n_lines_horizontal = 0] : c \in ServerConfigs}

ImageResultOf(image, image_number, metrics) ==
    [image_id |-> image.image_id,
     image_number |-> image_number,
     name |-> image.original_filename,
     average_mli_um |-> metrics.average_mli_um,
     processed_image_base64 |-> metrics.processed_image_base64,
     threshold_image_base64 |-> metrics.threshold_image_base64,
     lines |-> metrics.lines]

\* POST /upload
UploadImages ==
    /\ NoRequestInProgress
    /\ now < MaxRequests
    /\ \E animal_id \in Animals, images \in UploadLists :
          LET t == now + 1
              stored == StoreUploads(EnsureAnimal(state, animal_id, t), disk,
                                     animal_id, images, 1, t)
          IN /\ state' = stored.state
             /\ disk' = stored.disk
             /\ response' = [Respond("upload", 200, "") EXCEPT !.uploads = stored.uploads]
             /\ now' = t
    /\ handler' = NoHandler
    /\ UNCHANGED runVars
    /\ UNCHANGED recorded

\* POST /analyze, lines 123-129: the batch, or 404 when the animal has none
AnalyzeBegin ==
    /\ NoRequestInProgress
    /\ now < MaxRequests
    /\ \E animal_id \in Animals, raw \in ServerRawConfigs :
          LET validated == AnalysisConfigModel(raw)
              images == GetImagesForAnimal(state, animal_id)
              frame == [NoHandler EXCEPT !.endpoint = "analyze",
                                         !.animal_id = animal_id,
                                         !.config = validated.config,
                                         !.images = images]
          IN IF validated.status = "rejected"
             THEN /\ handler' = NoHandler
                  /\ response' = Respond("analyze", 422, "validation error")
             ELSE IF images = <<>>
             THEN /\ handler' = [frame EXCEPT !.stage = "responded"]
                  /\ response' = Respond("analyze", 404, "No images found for this animal")
             ELSE /\ handler' = [frame EXCEPT !.stage = "loop"]
                  /\ response' = NoResponse
    /\ now' = now + 1
    /\ UNCHANGED <<state, disk, runVars>>
    /\ UNCHANGED recorded

\* lines 130-139: the next image of the batch, up to the call
AnalyzeImage ==
    /\ handler.stage = "loop"
    /\ handler.index < Len(handler.images)
    /\ LET image == handler.images[handler.index + 1]
       IN IF image.stored_path \notin DOMAIN disk
          THEN /\ handler' = [handler EXCEPT !.stage = "responded"]
               /\ response' = Respond("analyze", 404, "Image not found on disk")
               /\ UNCHANGED runVars
          ELSE /\ handler' = [handler EXCEPT !.stage = "running",
                                             !.invoked = Append(@, image.image_id)]
               /\ file' = disk[image.stored_path]
               /\ config' = handler.config
               /\ pc' = "load"
               /\ UNCHANGED <<localVars, result, response>>
    /\ UNCHANGED <<state, disk, now>>
    /\ UNCHANGED recorded

\* lines 143-165: the call returned, its metrics join image_results
AnalyzeRunReturned ==
    /\ handler.endpoint = "analyze"
    /\ handler.stage = "running"
    /\ pc = "returned"
    /\ handler' =
          [handler EXCEPT
              !.stage = "loop",
              !.index = @ + 1,
              !.image_results =
                  Append(@, ImageResultOf(handler.images[handler.index + 1],
                                          handler.index + 1, result.metrics))]
    /\ RunReset
    /\ UNCHANGED <<state, disk, now, response>>
    /\ UNCHANGED recorded

\* lines 140-141: the call raised; the exception, wrapped in an HTTPException
\* or not, leaves the loop and the handler
\* (the images analysed so far recorded when the call raised, for comparison)
AnalyzeRunRaisedRecording ==
    /\ handler.stage = "running"
    /\ pc = "raised"
    /\ handler' = [handler EXCEPT !.stage = "responded"]
    /\ response' = Respond(handler.endpoint, 500, result.error)
    /\ state' = RecordAnalysis(state, [animal_id |-> handler.animal_id,
                                       generated_at |-> now,
                                       images |-> handler.image_results])
    /\ RunReset
    /\ UNCHANGED <<disk, now>>
    /\ UNCHANGED recorded
AnalyzeRunRaised ==
    /\ handler.stage = "running"
    /\ pc = "raised"
    /\ handler' = [handler EXCEPT !.stage = "responded"]
    /\ response' = Respond(handler.endpoint, 500, result.error)
    /\ RunReset
    /\ UNCHANGED <<state, disk, now>>
    /\ UNCHANGED recorded

\* lines 167-173: after the loop, the result is recorded and returned
AnalyzeRecord ==
    /\ handler.stage = "loop"
    /\ handler.index = Len(handler.images)
    /\ LET analysis_result == [animal_id |-> handler.animal_id,
                               generated_at |-> now,
                               images |-> handler.image_results]
       IN /\ state' = RecordAnalysis(state, analysis_result)
          /\ recorded' = [recorded EXCEPT ![handler.animal_id] = analysis_result]
          /\ response' = [Respond("analyze", 200, "") EXCEPT !.result = analysis_result]
    /\ handler' = [handler EXCEPT !.stage = "responded"]
    /\ UNCHANGED <<disk, now, runVars>>

\* PATCH /images/move, lines 201-210
MoveImageRequest ==
    /\ NoRequestInProgress
    /\ now < MaxRequests
    /\ \E image_id \in ImageIdChoices(state), from_animal_id \in Animals, to_animal_id \in Animals :
          IF from_animal_id = to_animal_id
          THEN /\ response' = [Respond("move", 200, "") EXCEPT !.image_id = image_id,
                                                               !.animal_id = to_animal_id]
               /\ state' = state
          ELSE LET ensured == EnsureAnimal(state, to_animal_id, now + 1)
               IN IF ~HasImage(ensured, image_id)
                  THEN /\ state' = ensured
                       /\ response' = Respond("move", 404, "Image not found")
                  ELSE /\ state' = MoveImage(ensured, image_id, to_animal_id)
                       /\ response' =
                              [Respond("move", 200, "") EXCEPT
                                  !.image_id = image_id,
                                  !.animal_id = ImageRecordOf(state', image_id).animal_id]
    /\ now' = now + 1
    /\ handler' = NoHandler
    /\ UNCHANGED <<disk, recorded, runVars>>

\* DELETE /images/{image_id}, lines 213-224
DeleteImageRequest ==
    /\ NoRequestInProgress
    /\ now < MaxRequests
    /\ \E image_id \in ImageIdChoices(state) :
          IF ~HasImage(state, image_id)
          THEN /\ response' = Respond("delete", 404, "Image not found")
               /\ UNCHANGED <<state, disk>>
          ELSE /\ state' = RemoveImage(state, image_id)
               /\ disk' = Unlink(disk, ImageRecordOf(state, image_id).stored_path)
               /\ response' = [Respond("delete", 200, "") EXCEPT !.image_id = image_id]
    /\ now' = now + 1
    /\ handler' = NoHandler
    /\ UNCHANGED <<recorded, runVars>>

\* POST /results/clear, lines 180-183
ClearResultsRequest ==
    /\ NoRequestInProgress
    /\ now < MaxRequests
    /\ state' = ClearResults(state)
    /\ recorded' = NothingRecorded
    /\ response' = Respond("clear", 200, "")
    /\ now' = now + 1
    /\ handler' = NoHandler
    /\ UNCHANGED <<disk, runVars>>

\* a stored file is deleted from outside the server, between two requests
FileLost ==
    /\ NoRequestInProgress
    /\ \E path \in DOMAIN disk : disk' = Unlink(disk, path)
    /\ UNCHANGED <<state, now, handler, response, recorded, runVars>>

\* POST /analyze/preview, lines 227-249: up to the call
PreviewBegin ==
    /\ NoRequestInProgress
    /\ now < MaxRequests
    /\ \E animal_id \in Animals, image_id \in ImageIdChoices(state), raw \in ServerRawConfigs :
          LET validated == AnalysisConfigModel(raw)
              images == GetImagesForAnimal(state, animal_id)
              found == {i \in 1..Len(images) : images[i].image_id = image_id}
              image_index == (CHOOSE i \in found : TRUE) - 1
              frame == [NoHandler EXCEPT !.endpoint = "preview",
                                         !.animal_id = animal_id,
                                         !.config = validated.config,
                                         !.images = images]
              Fail(code, detail) ==
                  /\ handler' = [frame EXCEPT !.stage = "responded"]
                  /\ response' = Respond("preview", code, detail)
                  /\ UNCHANGED runVars
          IN IF validated.status = "rejected"
             THEN /\ handler' = NoHandler
                  /\ response' = Respond("preview", 422, "validation error")
                  /\ UNCHANGED runVars
             ELSE IF images = <<>>
             THEN Fail(404, "No images found for this animal")
             ELSE IF found = {}
             THEN Fail(404, "Image not found for this animal")
             ELSE IF images[image_index + 1].stored_path \notin DOMAIN disk
             THEN Fail(404, "Image not found on disk")
             ELSE /\ handler' = [frame EXCEPT !.stage = "running",
                                              !.index = image_index,
                                              !.invoked = <<image_id>>]
                  /\ response' = NoResponse
                  /\ file' = disk[images[image_index + 1].stored_path]
                  /\ config' = validated.config
                  /\ pc' = "load"
                  /\ UNCHANGED <<localVars, result>>
    /\ now' = now + 1
    /\ UNCHANGED <<state, disk, recorded>>

\* lines 256-271: the call returned, its metrics are the response
PreviewRunReturned ==
    /\ handler.endpoint = "preview"
    /\ handler.stage = "running"
    /\ pc = "returned"
    /\ handler' = [handler EXCEPT !.stage = "responded"]
    /\ response' =
          [Respond("preview", 200, "") EXCEPT
              !.result = [NoAnalysis EXCEPT
                             !.images = <<ImageResultOf(handler.images[handler.index + 1],
                                                        handler.index + 1, result.metrics)>>]]
    /\ RunReset
    /\ UNCHANGED <<state, disk, now, recorded>>

Init ==
    /\ ServerIdle
    /\ RunIdle
    /\ RepeatIdle
    /\ ApIdle
    /\ CiIdle
    /\ ConfigIdle

Next ==
    \/ UploadImages /\ UNCHANGED <<apVars, ciVars, repeatVars, configVars>>
    \/ AnalyzeBegin /\ UNCHANGED <<apVars, ciVars, repeatVars, configVars>>
    \/ AnalyzeImage /\ UNCHANGED <<apVars, ciVars, repeatVars, configVars>>
    \/ Load /\ UNCHANGED <<apVars, ciVars, repeatVars, serverVars, configVars>>
    \/ HorizontalLine /\ UNCHANGED <<apVars, ciVars, repeatVars, serverVars, configVars>>
    \/ VerticalLine /\ UNCHANGED <<apVars, ciVars, repeatVars, serverVars, configVars>>
    \/ Aggregate /\ UNCHANGED <<apVars, ciVars, repeatVars, serverVars, configVars>>
    \/ EncodeProcessed /\ UNCHANGED <<apVars, ciVars, repeatVars, serverVars, configVars>>
    \/ EncodeThresholdAndReturn /\ UNCHANGED <<apVars, ciVars, repeatVars, serverVars, configVars>>
    \/ AnalyzeRunReturned /\ UNCHANGED <<apVars, ciVars, repeatVars, configVars>>
    \/ AnalyzeRunRaised /\ UNCHANGED <<apVars, ciVars, repeatVars, configVars>>
    \/ AnalyzeRecord /\ UNCHANGED <<apVars, ciVars, repeatVars, configVars>>
    \/ PreviewBegin /\ UNCHANGED <<apVars, ciVars, repeatVars, configVars>>
    \/ PreviewRunReturned /\ UNCHANGED <<apVars, ciVars, repeatVars, configVars>>
    \/ MoveImageRequest /\ UNCHANGED <<apVars, ciVars, repeatVars, configVars>>
    \/ DeleteImageRequest /\ UNCHANGED <<apVars, ciVars, repeatVars, configVars>>
    \/ ClearResultsRequest /\ UNCHANGED <<apVars, ciVars, repeatVars, configVars>>
    \/ FileLost /\ UNCHANGED <<apVars, ciVars, repeatVars, configVars>>

Spec == Init /\ [][Next]_vars

(***************************************************************************)
(* Specification of the state manager on its own: any sequence of at most  *)
(* MaxRequests calls of its methods.  The results given to record_analysis *)
(* are of the kind /analyze builds: one image, its overlays encoded, with  *)
(* or without an average.                                                  *)
(***************************************************************************)
SectionEncoded == EncodeImageToBase64([base |-> SectionImage.pixels, drawn |-> <<>>])

AnalysisResultsAt(t) ==
    {[animal_id |-> a,
      generated_at |-> t,
      images |-> <<[image_id |-> <<1, 1>>,
                    image_number |-> 1,
                    name |-> "section.png",
                    average_mli_um |-> avg,
                    processed_image_base64 |-> SectionEncoded,
                    threshold_image_base64 |-> SectionEncoded,
                    lines |-> <<>>]>>] :
        a \in Animals, avg \in {NoneValue, Rat(75, 1)}}

InitStorage ==
    /\ ServerIdle
    /\ RunIdle
    /\ RepeatIdle
    /\ ApIdle
    /\ CiIdle
    /\ ConfigIdle

EnsureAnimalCall ==
    /\ now < MaxRequests
    /\ \E a \in Animals : state' = EnsureAnimal(state, a, now + 1)
    /\ now' = now + 1
    /\ UNCHANGED recorded

AddImageCall ==
    /\ now < MaxRequests
    /\ \E a \in Animals :
          state' = AddImage(state, <<now + 1, 1>>, a, "section.png",
                            [animal_id |-> a, file_identifier |-> <<now + 1, 1, "section.png">>],
                            Size(SectionImage), now + 1)
    /\ now' = now + 1
    /\ UNCHANGED recorded

RemoveImageCall ==
    /\ now < MaxRequests
    /\ \E i \in 1..Len(state.images) : state' = RemoveImage(state, state.images[i].image_id)
    /\ now' = now + 1
    /\ UNCHANGED recorded

MoveImageCall ==
    /\ now < MaxRequests
    /\ \E i \in 1..Len(state.images), a \in Animals :
          state' = MoveImage(state, state.images[i].image_id, a)
    /\ now' = now + 1
    /\ UNCHANGED recorded

RecordAnalysisCall ==
    /\ now < MaxRequests
    /\ \E r \in AnalysisResultsAt(now + 1) :
          /\ state' = RecordAnalysis(state, r)
          /\ recorded' = [recorded EXCEPT ![r.animal_id] = r]
    /\ now' = now + 1

ClearResultsCall ==
    /\ now < MaxRequests
    /\ state' = ClearResults(state)
    /\ recorded' = NothingRecorded
    /\ now' = now + 1

NextStorage ==
    \/ EnsureAnimalCall /\ UNCHANGED <<disk, handler, response, apVars, ciVars, runVars, repeatVars, configVars>>
    \/ AddImageCall /\ UNCHANGED <<disk, handler, response, apVars, ciVars, runVars, repeatVars, configVars>>
    \/ RemoveImageCall /\ UNCHANGED <<disk, handler, response, apVars, ciVars, runVars, repeatVars, configVars>>
    \/ MoveImageCall /\ UNCHANGED <<disk, handler, response, apVars, ciVars, runVars, repeatVars, configVars>>
    \/ RecordAnalysisCall /\ UNCHANGED <<disk, handler, response, apVars, ciVars, runVars, repeatVars, configVars>>
    \/ ClearResultsCall /\ UNCHANGED <<disk, handler, response, apVars, ciVars, runVars, repeatVars, configVars>>

SpecStorage == InitStorage /\ [][NextStorage]_vars

(***************************************************************************)
(* C4: for every sample sequence, _count_intercepts returns as indices     *)
(* exactly the places i > 0 where (s[i] > 0) differs from (s[i-1] > 0), in *)
(* increasing order, and as count their number; constant and empty         *)
(* sequences give count 0, and [1, 1, 0, 0, 1] gives count 2 at [2, 4].    *)
(***************************************************************************)
TransitionSet(s) ==
    {i \in 1..(Len(s) - 1) : (SeqAt(s, i) > 0) # (SeqAt(s, i - 1) > 0)}

StrictlyIncreasing(s) == \A i \in 1..(Len(s) - 1) : s[i] < s[i + 1]

C4_CountIntercepts ==
    ciReturned =>
        /\ Range(intercepts.indices) = TransitionSet(samples)
        /\ StrictlyIncreasing(intercepts.indices)
        /\ intercepts.count = Cardinality(TransitionSet(samples))
        /\ intercepts.count = Len(intercepts.indices)
        /\ ((\A i \in 1..Len(samples) : samples[i] > 0)
               \/ (\A i \in 1..Len(samples) : samples[i] = 0))
              => intercepts.count = 0
        /\ samples = <<>> => intercepts = [count |-> 0, indices |-> <<>>]
        /\ samples = <<1, 1, 0, 0, 1>> => intercepts = [count |-> 2, indices |-> <<2, 4>>]

C4_Witness ==
    /\ ciReturned
    /\ samples = <<1, 1, 0, 0, 1>>
    /\ intercepts = [count |-> 2, indices |-> <<2, 4>>]

(***************************************************************************)
(* C5 as claimed: for every length >= 1 and count >= 0 the positions are   *)
(* exactly count integers strictly between 0 and length, strictly          *)
(* increasing, each within 1/2 of (i+1) * length / (count+1).              *)
(***************************************************************************)
WithinHalf(len, cnt) ==
    \A k \in 1..Len(positions) :
        LET e == 2 * ((cnt + 1) * positions[k] - len * k)
        IN e <= cnt + 1 /\ -e <= cnt + 1

C5_Original ==
    (apReturned /\ count >= 0) =>
        /\ Len(positions) = count
        /\ \A k \in 1..Len(positions) : 0 < positions[k] /\ positions[k] < length
        /\ StrictlyIncreasing(positions)
        /\ WithinHalf(length, count)

(***************************************************************************)
(* C5 amended: exactly count integers in 0..length, non-decreasing, each   *)
(* within 1/2 of (i+1) * length / (count+1); strictly between 0 and length *)
(* and strictly increasing whenever count + 1 <= length; empty for         *)
(* count <= 0.                                                             *)
(***************************************************************************)
C5_AutoPositions ==
    apReturned =>
        /\ count <= 0 => positions = <<>>
        /\ count >= 0 =>
            /\ Len(positions) = count
            /\ \A k \in 1..Len(positions) : 0 <= positions[k] /\ positions[k] <= length
            /\ \A k \in 1..(Len(positions) - 1) : positions[k] <= positions[k + 1]
            /\ WithinHalf(length, count)
            /\ count + 1 <= length =>
                /\ \A k \in 1..Len(positions) : 0 < positions[k] /\ positions[k] < length
                /\ StrictlyIncreasing(positions)

C5_Witness ==
    /\ apReturned
    /\ length = 3
    /\ count = 2
    /\ positions = <<1, 2>>

(***************************************************************************)
(* C1: in every row built by run_mli_analysis the total length is the sum  *)
(* of the horizontal and the vertical length; the row's MLI is the total   *)
(* length divided by the total intercepts (horizontal + vertical count)    *)
(* when that is positive, and None (not 0) when it is 0.  Lengths 100 and  *)
(* 50 with 2 and 3 intercepts give total 150 and MLI exactly 30.           *)
(***************************************************************************)
RowOk(l) ==
    LET total_intercepts == l.horizontal_intercepts + l.vertical_intercepts
        mli == l.mean_linear_intercept_um
    IN /\ l.total_line_length_um = l.horizontal_length_um + l.vertical_length_um
       /\ total_intercepts > 0 =>
            /\ mli.den > 0
            /\ mli.num * total_intercepts = l.total_line_length_um * mli.den
       /\ total_intercepts = 0 => mli = NoneValue

C1_RowMli ==
    /\ \A i \in 1..Len(lines) : RowOk(lines[i])
    /\ \A i \in 1..Len(result.metrics.lines) : RowOk(result.metrics.lines[i])
    /\ LET row == LineMetrics(<<LineData(2, 100)>>, <<LineData(3, 50)>>, 0)
       IN row.total_line_length_um = 150 /\ row.mean_linear_intercept_um = [num |-> 30, den |-> 1]

C1_Witness ==
    /\ result.status = "returned"
    /\ \E i, j \in 1..Len(result.metrics.lines) :
          LET a == result.metrics.lines[i]
              b == result.metrics.lines[j]
          IN /\ a.horizontal_intercepts + a.vertical_intercepts = 0
             /\ a.mean_linear_intercept_um = NoneValue
             /\ b.horizontal_intercepts = 1
             /\ b.vertical_intercepts = 2
             /\ b.total_line_length_um = 150
             /\ b.mean_linear_intercept_um = [num |-> 50, den |-> 1]

(***************************************************************************)
(* C2: the average MLI of the image is the arithmetic mean of the rows     *)
(* whose MLI is defined (rows without intercepts are left out, not counted *)
(* as 0), and None when no row has a defined MLI.                          *)
(***************************************************************************)
DefinedRows(ls) == {i \in 1..Len(ls) : ls[i].mean_linear_intercept_um # NoneValue}

\* the sum of the MLI of the rows I, as numerator and denominator
RECURSIVE SumMli(_, _)
SumMli(ls, I) ==
    IF I = {} THEN [num |-> 0, den |-> 1]
    ELSE LET i == CHOOSE k \in I : TRUE
             m == ls[i].mean_linear_intercept_um
             rest == SumMli(ls, I \ {i})
         IN [num |-> m.num * rest.den + rest.num * m.den, den |-> m.den * rest.den]

AverageOk(ls, avg) ==
    LET rows == DefinedRows(ls)
        sum == SumMli(ls, rows)
    IN IF rows = {} THEN avg = NoneValue
       ELSE /\ avg.den > 0
            /\ avg.num * Cardinality(rows) * sum.den = sum.num * avg.den

C2_AverageMli ==
    /\ pc \in {"encode_processed", "encode_threshold"} => AverageOk(lines, average_mli)
    /\ result.status = "returned" =>
          AverageOk(result.metrics.lines, result.metrics.average_mli_um)

C2_Witness ==
    /\ result.status = "returned"
    /\ Cardinality(DefinedRows(result.metrics.lines)) = 2
    /\ Len(result.metrics.lines) = 3
    /\ result.metrics.average_mli_um = [num |-> 75, den |-> 1]

(***************************************************************************)
(* C3: with H horizontal and V vertical measured lines there are exactly   *)
(* max(H, V) rows, numbered 1..max(H, V) in order; row i carries the       *)
(* intercept count and the length of horizontal line i and of vertical     *)
(* line i, and zero intercepts and zero length for a side without line i.  *)
(***************************************************************************)
Transitions(s) == Cardinality(TransitionSet(s))

RowsOk(ls) ==
    LET H == Len(horizontal_positions)
        V == Len(vertical_positions)
    IN /\ Len(ls) = (IF H >= V THEN H ELSE V)
       /\ \A i \in 1..Len(ls) :
            /\ ls[i].line_number = i
            /\ i <= H =>
                /\ ls[i].horizontal_intercepts =
                       Transitions(RowSamples(mask, file.width, horizontal_positions[i]))
                /\ ls[i].horizontal_length_um = config.line_length_um_horizontal
            /\ i > H =>
                /\ ls[i].horizontal_intercepts = 0
                /\ ls[i].horizontal_length_um = 0
            /\ i <= V =>
                /\ ls[i].vertical_intercepts =
                       Transitions(ColumnSamples(mask, file.height, vertical_positions[i]))
                /\ ls[i].vertical_length_um = config.line_length_um_vertical
            /\ i > V =>
                /\ ls[i].vertical_intercepts = 0
                /\ ls[i].vertical_length_um = 0

C3_Rows ==
    /\ pc \in {"encode_processed", "encode_threshold"} => RowsOk(lines)
    /\ result.status = "returned" =>
          /\ RowsOk(result.metrics.lines)
          /\ Len(horizontal_positions) = config.n_lines_horizontal
          /\ Len(vertical_positions) = config.n_lines_vertical

C3_Witness ==
    /\ result.status = "returned"
    /\ config.n_lines_horizontal = 3
    /\ config.n_lines_vertical = 1
    /\ Len(result.metrics.lines) = 3
    /\ result.metrics.lines[1].vertical_intercepts = 2
    /\ result.metrics.lines[1].vertical_length_um = 50
    /\ \A i \in {2, 3} :
          /\ result.metrics.lines[i].vertical_intercepts = 0
          /\ result.metrics.lines[i].vertical_length_um = 0
          /\ result.metrics.lines[i].horizontal_length_um = 100

(***************************************************************************)
(* C6: a run is all-or-nothing.  A file that cannot be read and a failed   *)
(* encoding of either overlay end the run with ImageProcessingError and no *)
(* metrics at all; nothing is handed out before the end; a run that        *)
(* returns hands out every row, the average and both overlays, encoded     *)
(* with every line drawn.                                                  *)
(***************************************************************************)
LinesDrawn(overlay) ==
    LET Line(e) == e.kind = "line"
        ev == SelectSeq(overlay.drawn, Line)
    IN [i \in 1..Len(ev) |-> <<ev[i].axis, ev[i].point[1]>>]

AllLines ==
    [i \in 1..Len(horizontal_positions) |-> <<"horizontal", horizontal_positions[i]>>]
        \o [i \in 1..Len(vertical_positions) |-> <<"vertical", vertical_positions[i]>>]

Complete(metrics) ==
    /\ Len(metrics.lines) =
          (IF config.n_lines_horizontal >= config.n_lines_vertical
           THEN config.n_lines_horizontal ELSE config.n_lines_vertical)
    /\ AverageOk(metrics.lines, metrics.average_mli_um)
    /\ metrics.processed_image_base64.png.base = file.pixels
    /\ LinesDrawn(metrics.processed_image_base64.png) = AllLines
    /\ DOMAIN metrics.threshold_image_base64.png.base = DOMAIN file.pixels
    /\ LinesDrawn(metrics.threshold_image_base64.png) = AllLines

C6_AllOrNothing ==
    /\ (pc = "raised") <=> (result.status = "raised")
    /\ (pc = "returned") <=> (result.status = "returned")
    /\ result.status # "returned" => result.metrics = NoMetrics
    /\ (~file.readable /\ pc # "load") => result = Raised("ImageProcessingError")
    /\ (pc = "raised" /\ Len(lines) > 0) => result = Raised("ImageProcessingError")
    /\ result.status = "returned" => (file.readable /\ Complete(result.metrics))

C6_Witness ==
    /\ pc = "raised"
    /\ file.readable
    /\ processed_image_base64 # NotEncoded
    /\ result = Raised("ImageProcessingError")

(***************************************************************************)
(* C9 as claimed: for a solid light image with one solid dark rectangular  *)
(* block lying strictly inside the row between columns x0 and x1, and      *)
(* min_area below the block's area, the horizontal line through a row of   *)
(* the block has exactly 2 intercepts, marked within 1 pixel of x0 and of  *)
(* x1.                                                                     *)
(***************************************************************************)
IsBlockImage(img, r0, r1, x0, x1) ==
    /\ img.readable
    /\ \E light, dark \in GrayLevels :
          /\ dark < light
          /\ \A p \in DOMAIN img.pixels :
                img.pixels[p] = (IF r0 <= p[1] /\ p[1] <= r1 /\ x0 <= p[2] /\ p[2] <= x1
                                 THEN dark ELSE light)

MarkersOfRow(overlay, y) ==
    {overlay.drawn[k].point[1] :
        k \in {j \in 1..Len(overlay.drawn) :
                  /\ overlay.drawn[j].kind = "marker"
                  /\ overlay.drawn[j].axis = "horizontal"
                  /\ overlay.drawn[j].point[2] = y}}

C9_BlockIntercepts ==
    \A i \in 1..Len(horizontal_data) :
        \A r0, r1 \in 0..(file.height - 1) :
            \A x0, x1 \in 1..(file.width - 2) :
                LET y == horizontal_positions[i]
                IN (/\ r0 <= r1 /\ x0 <= x1
                    /\ r0 <= y /\ y <= r1
                    /\ IsBlockImage(file, r0, r1, x0, x1)
                    /\ config.min_area < (r1 - r0 + 1) * (x1 - x0 + 1))
                   => /\ horizontal_data[i].intercepts = 2
                      /\ \E a, b \in MarkersOfRow(original_overlay, y) :
                            /\ a - x0 \in {-1, 0, 1}
                            /\ b - x1 \in {-1, 0, 1}

(***************************************************************************)
(* C7: in a batch analysis (the loop of POST /analyze), a failure of       *)
(* run_mli_analysis on one image does not keep the other images of the     *)
(* batch from being attempted: once the request is answered, with every    *)
(* file of the batch on disk, run_mli_analysis has been invoked on every   *)
(* image of the batch.                                                     *)
(***************************************************************************)
BatchAnswered ==
    /\ handler.endpoint = "analyze"
    /\ handler.stage = "responded"
    /\ \A i \in 1..Len(handler.images) : handler.images[i].stored_path \in DOMAIN disk

C7_EveryImageAttempted ==
    BatchAnswered =>
        \A i \in 1..Len(handler.images) :
            handler.images[i].image_id \in Range(handler.invoked)

(***************************************************************************)
(* C8: run_mli_analysis carries no state from one call to the next: a call *)
(* that returns on the same image and the same config as an earlier call   *)
(* that returned, whatever calls were made in between, returns the same    *)
(* LineMetrics rows and the same average MLI.                              *)
(***************************************************************************)
SameInputs == remembered.set /\ file = remembered.file /\ config = remembered.config

C8_Repeatable ==
    (SameInputs /\ pc = "returned" /\ remembered.result.status = "returned")
        => /\ result.metrics.lines = remembered.result.metrics.lines
           /\ result.metrics.average_mli_um = remembered.result.metrics.average_mli_um

\* the third call returns, on the inputs of a kept call that found
\* intercepts, after a call on other inputs
C8_Witness ==
    /\ SameInputs
    /\ pc = "returned"
    /\ calls = 3
    /\ remembered.between
    /\ remembered.result.status = "returned"
    /\ ~IsNone(result.metrics.average_mli_um)

(***************************************************************************)
(* C11: every configuration that AnalysisConfigModel accepts satisfies the *)
(* AnalysisConfig invariant (scale and both line lengths strictly          *)
(* positive, both line counts at least 1, sigma_denoise and min_area at    *)
(* least 0, a magnification that is trimmed, non-empty and of at most 20   *)
(* characters), and the fields that would give a configuration outside it  *)
(* are rejected.                                                           *)
(***************************************************************************)
Trimmed(s) == s.lead = 0 /\ s.trail = 0

ConfigInvariant(c) ==
    /\ c.scale_um_per_pixel > 0
    /\ c.line_length_um_horizontal > 0
    /\ c.line_length_um_vertical > 0
    /\ c.n_lines_horizontal >= 1
    /\ c.n_lines_vertical >= 1
    /\ c.sigma_denoise >= 0
    /\ c.min_area >= 0
    /\ Trimmed(c.magnification)
    /\ TextLen(c.magnification) >= 1
    /\ TextLen(c.magnification) <= 20

C11_AcceptedConfigs ==
    validation.status = "accepted" => ConfigInvariant(validation.config)

(***************************************************************************)
(* C12: the drawing events of a run come in this order: the horizontal     *)
(* lines by increasing position, then the vertical lines by increasing     *)
(* position; each line is drawn on both overlays and followed, on both, by *)
(* one marker for each of its counted intercepts, at the counted places,   *)
(* so that an overlay holds as many markers as intercepts were counted;    *)
(* an overlay is encoded only with every line and marker drawn.            *)
(***************************************************************************)
NonDecreasing(s) == \A i \in 1..(Len(s) - 1) : s[i] <= s[i + 1]

\* the line at position at of an axis and the markers of the places where
\* the mask changes along it, in increasing order
ExpectedLineEvents(axis, at) ==
    LET along == IF axis = "horizontal"
                 THEN [c \in 1..file.width |-> mask[<<at, c - 1>>]]
                 ELSE [r \in 1..file.height |-> mask[<<r - 1, at>>]]
        places == SetToSortedSeq(TransitionSet(along))
    IN <<[kind |-> "line", axis |-> axis, point |-> <<at, at>>]>> \o
       [i \in 1..Len(places) |->
           [kind |-> "marker", axis |-> axis,
            point |-> IF axis = "horizontal" THEN <<places[i], at>> ELSE <<at, places[i]>>]]

RECURSIVE ExpectedEvents(_)
ExpectedEvents(k) ==
    IF k = 0
    THEN <<>>
    ELSE ExpectedEvents(k - 1) \o ExpectedLineEvents(AllLines[k][1], AllLines[k][2])

RECURSIVE SumIntercepts(_)
SumIntercepts(data) ==
    IF data = <<>> THEN 0 ELSE data[1].intercepts + SumIntercepts(Tail(data))

MarkerCount(overlay) ==
    Cardinality({i \in 1..Len(overlay.drawn) : overlay.drawn[i].kind = "marker"})

LinesMeasured == Len(horizontal_data) + Len(vertical_data)

C12_DrawingOrder ==
    /\ NonDecreasing(horizontal_positions)
    /\ NonDecreasing(vertical_positions)
    /\ Len(vertical_data) > 0 => Len(horizontal_data) = Len(horizontal_positions)
    /\ original_overlay.drawn = ExpectedEvents(LinesMeasured)
    /\ threshold_overlay.drawn = ExpectedEvents(LinesMeasured)
    /\ MarkerCount(original_overlay) =
          SumIntercepts(horizontal_data) + SumIntercepts(vertical_data)
    /\ processed_image_base64 # NotEncoded =>
          processed_image_base64.png.drawn = ExpectedEvents(Len(AllLines))
    /\ result.status = "returned" =>
          /\ result.metrics.processed_image_base64.png.drawn = ExpectedEvents(Len(AllLines))
          /\ result.metrics.threshold_image_base64.png.drawn = ExpectedEvents(Len(AllLines))

\* a run returned with two horizontal lines and a vertical one drawn, and
\* markers on a horizontal and on a vertical line
C12_Witness ==
    /\ pc = "returned"
    /\ Len(horizontal_positions) >= 2
    /\ Len(vertical_positions) >= 1
    /\ SumIntercepts(horizontal_data) > 0
    /\ SumIntercepts(vertical_data) > 0

(***************************************************************************)
(* C13 as claimed: drawing never modifies the mask that later lines        *)
(* sample; the rows and the average equal those of measuring every line    *)
(* first; and the final overlays are the same in whatever order the lines  *)
(* (each with its markers) are rendered.  Every order is reached by        *)
(* exchanges of two neighbouring lines, so the last part is stated for     *)
(* those.                                                                  *)
(***************************************************************************)
\* the measurement of every line of an axis on the mask alone
MeasuredFirst(axis) ==
    IF axis = "horizontal"
    THEN [i \in 1..Len(horizontal_positions) |->
             [intercepts |->
                  Cardinality(TransitionSet(
                      [c \in 1..file.width |-> mask[<<horizontal_positions[i], c - 1>>]])),
              length_um |-> config.line_length_um_horizontal]]
    ELSE [i \in 1..Len(vertical_positions) |->
             [intercepts |->
                  Cardinality(TransitionSet(
                      [r \in 1..file.height |-> mask[<<r - 1, vertical_positions[i]>>]])),
              length_um |-> config.line_length_um_vertical]]

RECURSIVE EventsInOrder(_)
EventsInOrder(order) ==
    IF order = <<>>
    THEN <<>>
    ELSE ExpectedLineEvents(AllLines[Head(order)][1], AllLines[Head(order)][2])
             \o EventsInOrder(Tail(order))

SourceOrder == [k \in 1..Len(AllLines) |-> k]

Exchanged(i) ==
    [k \in 1..Len(AllLines) |-> IF k = i THEN i + 1 ELSE IF k = i + 1 THEN i ELSE k]

SecondPass(overlay, order) == Render([base |-> overlay.base, drawn |-> EventsInOrder(order)])

AllDrawn == pc \in {"encode_processed", "encode_threshold", "returned"}

MaskUntouched ==
    (file.readable /\ pc \notin {"idle", "load"}) => mask = LoadMask(file.pixels, config.min_area)

MeasureFirstAgrees ==
    AllDrawn =>
        /\ horizontal_data = MeasuredFirst("horizontal")
        /\ vertical_data = MeasuredFirst("vertical")
        /\ lines = BuildLines(MeasuredFirst("horizontal"), MeasuredFirst("vertical"))
        /\ average_mli = AverageMli(lines)

C13_Original ==
    /\ MaskUntouched
    /\ MeasureFirstAgrees
    /\ AllDrawn =>
          \A i \in 1..(Len(AllLines) - 1) :
              /\ SecondPass(original_overlay, Exchanged(i)) = Render(original_overlay)
              /\ SecondPass(threshold_overlay, Exchanged(i)) = Render(threshold_overlay)

(***************************************************************************)
(* C13, amended: drawing never modifies the mask; the rows and the average *)
(* equal those of measuring every line first; the final overlays equal     *)
(* those of a second pass that renders the lines in the order of the       *)
(* source, the horizontal ones and then the vertical ones.                 *)
(***************************************************************************)
C13_TwoPass ==
    /\ MaskUntouched
    /\ MeasureFirstAgrees
    /\ AllDrawn =>
          /\ SecondPass(original_overlay, SourceOrder) = Render(original_overlay)
          /\ SecondPass(threshold_overlay, SourceOrder) = Render(threshold_overlay)

\* a run returned with two horizontal lines and a vertical one, markers on
\* both axes and an average
C13_Witness ==
    /\ pc = "returned"
    /\ Len(horizontal_data) >= 2
    /\ Len(vertical_data) >= 1
    /\ SumIntercepts(horizontal_data) > 0
    /\ SumIntercepts(vertical_data) > 0
    /\ ~IsNone(result.metrics.average_mli_um)
    /\ mask = LoadMask(file.pixels, config.min_area)

(***************************************************************************)
(* C14: stored results are keyed by animal.  After any sequence of         *)
(* record_analysis and clear_results calls, get_results holds at most one  *)
(* result per animal, the one last recorded for it since the last          *)
(* clear_results, which get_result_for_animal returns too; and a step that *)
(* records a result leaves the results of the other animals and every      *)
(* animal and image record as they were.                                   *)
(***************************************************************************)
ResultsOf(st, a) == {i \in 1..Len(GetResults(st)) : GetResults(st)[i].animal_id = a}

KeyedByAnimal ==
    \A a \in Animals :
        /\ Cardinality(ResultsOf(state, a)) <= 1
        /\ GetResultForAnimal(state, a) = recorded[a]
        /\ \A i \in ResultsOf(state, a) : GetResults(state)[i] = recorded[a]
        /\ (ResultsOf(state, a) = {}) <=> (recorded[a] = NoAnalysis)

RecordingFrame ==
    \A a \in Animals :
        (recorded'[a] # recorded[a] /\ recorded'[a] # NoAnalysis) =>
            /\ state'.animals = state.animals
            /\ state'.images = state.images
            /\ \A b \in Animals \ {a} :
                  GetResultForAnimal(state', b) = GetResultForAnimal(state, b)

C14_KeyedByAnimal == []KeyedByAnimal /\ [][RecordingFrame]_vars

\* a second result recorded for the animal whose result came first, with
\* the other animal's result in between
C14_Witness ==
    /\ Len(state.results) = 2
    /\ state.results[1].generated_at > state.results[2].generated_at
    /\ recorded[state.results[1].animal_id] = state.results[1]

(***************************************************************************)
(* C15 as claimed: every position that _auto_positions gives for the rows  *)
(* (resp. the columns) of an image is an index of that axis, at least 0    *)
(* and at most the length less 1, so that no line of a run samples the     *)
(* mask outside of it: no run on a readable image and a valid config ends  *)
(* in an IndexError.                                                       *)
(***************************************************************************)
C15_PositionsInRange ==
    (file.readable /\ pc \notin {"idle", "load"}) =>
        /\ \A i \in 1..Len(horizontal_positions) :
              0 <= horizontal_positions[i] /\ horizontal_positions[i] <= file.height - 1
        /\ \A i \in 1..Len(vertical_positions) :
              0 <= vertical_positions[i] /\ vertical_positions[i] <= file.width - 1
        /\ result.error # "IndexError"

(***************************************************************************)
(* C16: POST /analyze records a result only after every image of the       *)
(* animal was analysed successfully.  No step of the request changes the   *)
(* stored state but the recording, which comes with the batch complete and *)
(* the response 200 and touches only the result of that animal; a request  *)
(* that fails (rejected config, no images, a file missing on disk, an      *)
(* exception of run_mli_analysis) leaves animals, images and every stored  *)
(* result as they were.                                                    *)
(***************************************************************************)
AnalyzeStep ==
    \/ response'.endpoint = "analyze" /\ response' # response
    \/ handler'.endpoint = "analyze" /\ <<handler, runVars>>' # <<handler, runVars>>

RecordingStep ==
    /\ handler.stage = "loop"
    /\ handler.index = Len(handler.images)
    /\ Len(handler.image_results) = Len(handler.images)
    /\ \A i \in 1..Len(handler.images) :
          /\ handler.invoked[i] = handler.images[i].image_id
          /\ handler.image_results[i].image_id = handler.images[i].image_id
    /\ response'.status = 200
    /\ state'.animals = state.animals
    /\ state'.images = state.images
    /\ GetResultForAnimal(state', handler.animal_id).images = handler.image_results
    /\ \A b \in Animals \ {handler.animal_id} :
          GetResultForAnimal(state', b) = GetResultForAnimal(state, b)

FailedAnalyzeFrame ==
    AnalyzeStep =>
        /\ state' # state => RecordingStep
        /\ response'.status \notin {0, 200} => state' = state
        /\ disk' = disk

C16_RecordOnlyOnSuccess == [][FailedAnalyzeFrame]_vars

\* the second image of a batch failed, after an earlier request had
\* recorded a result for the animal, which is still the stored one
C16_Witness ==
    /\ response.endpoint = "analyze"
    /\ response.status = 500
    /\ handler.index >= 1
    /\ recorded[handler.animal_id] # NoAnalysis
    /\ GetResultForAnimal(state, handler.animal_id) = recorded[handler.animal_id]

(***************************************************************************)
(* C17 as claimed: whenever PATCH /images/move answers with success for an *)
(* image id and a target animal, an image record with that id is in the    *)
(* storage and its animal_id is the target animal; for an id that is not   *)
(* in the storage the answer is never success.                             *)
(***************************************************************************)
C17_MoveSuccess ==
    (response.endpoint = "move" /\ response.status = 200) =>
        /\ HasImage(state, response.image_id)
        /\ ImageRecordOf(state, response.image_id).animal_id = response.animal_id

(***************************************************************************)
(* C10: for all min_area values a <= b the tissue pixels of the mask       *)
(* computed with b are among those of the mask computed with a, and with   *)
(* min_area = 0 the mask is the thresholded one: tissue iff the gray level *)
(* is strictly below the threshold.                                        *)
(***************************************************************************)
C10_MinAreaMonotone ==
    pc = "measure" =>
        /\ \A a \in 0..config.min_area :
              Tissue(mask) \subseteq Tissue(LoadMask(file.pixels, a))
        /\ config.min_area = 0 =>
              \A p \in DOMAIN mask :
                  (mask[p] = 1) <=> (file.pixels[p] < ThresholdOtsu(file.pixels))

C10_Witness ==
    /\ pc = "measure"
    /\ config.min_area = 2
    /\ Cardinality(Tissue(mask)) = 2
    /\ Cardinality(Tissue(LoadMask(file.pixels, 0))) = 3

====
